---- MODULE Spec2Model ----
(***************************************************************************)
(* gDLS* robust estimator (src/gdls_star/gdls_star_robust_estimator.cc):   *)
(* the RANSAC hypothesize-and-test loop of GdlsStarRobustEstimator, its    *)
(* sampler, its reprojection scorer and its adaptive termination policy.   *)
(*                                                                         *)
(* Abstractions.                                                           *)
(*  - A correspondence is its index 0..n-1 in the caller's vector.         *)
(*  - A double that holds an inlier ratio is the record                    *)
(*    [cnt, tot, eps], standing for cnt/tot + eps*epsilon, where epsilon   *)
(*    is std::numeric_limits<double>::epsilon() = 2^-52.  For the counts   *)
(*    of this model (tot < 2^26) cnt/tot + epsilon is a double strictly    *)
(*    between cnt/tot and (cnt+1)/tot, so comparing the records compares   *)
(*    the doubles.                                                         *)
(*  - failure_probability is the rational <<P, Q>>; log_failure_prob is    *)
(*    its logarithm and is carried as the same pair.                       *)
(*  - Powers of 1 - inlier_ratio^4 are fixed-point numbers of FixedOne     *)
(*    units.                                                               *)
(*  - A rotation, translation or scale is a small integer; the camera      *)
(*    model (ProjectPoint) and the pixel error are functions of them.      *)
(*  - The minimal solver (GdlsStar::EstimateSimilarityTransformation) is   *)
(*    external: any outcome, failure or a list of hypotheses.              *)
(*  - std::mt19937 is a deterministic generator on PrngMod states.         *)
(***************************************************************************)
EXTENDS Integers, Sequences, FiniteSets, TLC

VARIABLES
    pc,                       \* where the estimator object / the Estimate call is
    params_,                  \* GdlsStarRobustEstimator::params_
    prng_,                    \* GdlsStarRobustEstimator::prng_
    correspondence_indices_,  \* GdlsStarRobustEstimator::correspondence_indices_
    num_correspondences,      \* correspondences.size() of the call
    summary,                  \* *ransac_summary, the caller's record
    max_iterations,           \* local of Estimate
    best_solution,            \* local of Estimate
    inlier_ratio,             \* local of Estimate
    sample,                   \* local of Estimate (indices of the copies)
    returned,                 \* the value Estimate returned, NoSolution before
    run,                      \* history of the current call (not program state)
    ref,                      \* SpecRepeat: the solver's fixed answer, the first call's result
    cmi,                      \* SpecPolicy: the arguments and the result of ComputeMaxIterations
    ubs                       \* SpecScore: the arguments of UpdateBestSolution

vars == <<pc, params_, prng_, correspondence_indices_, num_correspondences,
          summary, max_iterations, best_solution, inlier_ratio, sample,
          returned, run, ref, cmi, ubs>>

-----------------------------------------------------------------------------
(* Bounds of the model *)

MaxCorrespondences == 5
MaxIterationsBound == 3
MaxHypotheses == 2
RepeatedCalls == 2
PrngMod == 8
FixedOne == 1000000

(* Program constants *)

kMinimalSampleSize == 4
IntMax == 2147483647
IntMin == (-IntMax) - 1

-----------------------------------------------------------------------------
(* Values *)

IdentityRotation == 0
ZeroTranslation == 0
UnitScale == 1

Solution(rs, ts, ss) == [rotations |-> rs, translations |-> ts, scales |-> ss]

NoSolution == Solution(<<>>, <<>>, <<>>)

IdentitySolution ==
    Solution(<<IdentityRotation>>, <<ZeroTranslation>>, <<UnitScale>>)

Ratio(c, t, e) == [cnt |-> c, tot |-> t, eps |-> e]

ZeroRatio == Ratio(0, 1, 0)

RatioLess(a, b) ==
    \/ a.cnt * b.tot < b.cnt * a.tot
    \/ a.cnt * b.tot = b.cnt * a.tot /\ a.eps < b.eps

RatioLeq(a, b) == RatioLess(a, b) \/ (a.cnt * b.tot = b.cnt * a.tot /\ a.eps = b.eps)

-----------------------------------------------------------------------------
(* Construction: lines 29-38 *)

Params(fp, thresh, lo, hi, sd) ==
    [failure_probability |-> fp, reprojection_error_thresh |-> thresh,
     min_iterations |-> lo, max_iterations |-> hi, seed |-> sd]

\* The parameter sets a caller may construct the estimator with: valid ones,
\* and one violating each CHECK of the constructor in turn.
ParamChoices ==
    {Params(fp, 1, lo, MaxIterationsBound, sd) :
        fp \in {<<1, 2>>, <<1, 100>>}, lo \in {0, MaxIterationsBound - 1},
        sd \in 0..1}
    \cup {Params(<<0, 2>>, 1, 0, MaxIterationsBound, 0),
          Params(<<2, 2>>, 1, 0, MaxIterationsBound, 0),
          Params(<<1, 2>>, 0, 0, MaxIterationsBound, 0),
          Params(<<1, 2>>, 1, -1, MaxIterationsBound, 0),
          Params(<<1, 2>>, 1, MaxIterationsBound, MaxIterationsBound, 0)}

\* ParamsValid with CHECK_GE in the place of the CHECK_GT of line 37.
ParamsValidMaxNotBelowMin(p) ==
    /\ p.failure_probability[1] > 0
    /\ p.failure_probability[1] < p.failure_probability[2]
    /\ p.reprojection_error_thresh > 0
    /\ p.min_iterations >= 0
    /\ p.max_iterations >= p.min_iterations

\* The five CHECKs of the constructor; failure_probability is P/Q with Q > 0.
ParamsValid(p) ==
    /\ p.failure_probability[1] > 0
    /\ p.failure_probability[1] < p.failure_probability[2]
    /\ p.reprojection_error_thresh > 0
    /\ p.min_iterations >= 0
    /\ p.max_iterations > p.min_iterations

\* prng_(ransac_params.seed)
SeedPrng(sd) == sd % PrngMod

-----------------------------------------------------------------------------
(* Sampler: lines 40-59 *)

\* One step of the generator behind std::uniform_int_distribution.
PrngNext(s) == (5 * s + 3) % PrngMod

\* RandInt(min_value, max_value), given the generator's raw output g.
RandInt(min_value, max_value, g) ==
    min_value + (g % (max_value - min_value + 1))

\* std::swap of positions a and b (0-based) of the index array.
SwapIndices(ind, a, b) ==
    [k \in 1..Len(ind) |->
        IF k = a + 1 THEN ind[b + 1] ELSE IF k = b + 1 THEN ind[a + 1] ELSE ind[k]]

\* SwapTarget drawing from the whole array instead of from position i on.
SwapTargetAnywhere(i, n, g) == RandInt(0, n - 1, g)

\* The position that iteration i of Sample swaps position i with.
SwapTarget(i, n, g) == RandInt(i, n - 1, g)

\* The loop of Sample from iteration i on; gs are the generator's raw outputs,
\* one per iteration.  The copy is taken right after the swap of its iteration.
RECURSIVE SampleLoop(_, _, _, _, _)
SampleLoop(i, n, ind, smp, gs) ==
    IF i >= kMinimalSampleSize THEN [indices |-> ind, sample |-> smp]
    ELSE LET swapped == SwapIndices(ind, i, SwapTarget(i, n, gs[i + 1]))
         IN SampleLoop(i + 1, n, swapped, Append(smp, swapped[i + 1]), gs)

Sample(n, ind, gs) == SampleLoop(0, n, ind, <<>>, gs)

\* The raw outputs prng_ produces for the draws of one Sample call.
PrngOutputs(s) ==
    <<PrngNext(s), PrngNext(PrngNext(s)), PrngNext(PrngNext(PrngNext(s))),
      PrngNext(PrngNext(PrngNext(PrngNext(s))))>>

\* std::iota(correspondence_indices_.begin(), ..., 0) after resize(n)
Iota(n) == [k \in 1..n |-> k - 1]

-----------------------------------------------------------------------------
(* Reprojection scorer: lines 61-120 *)

\* Translation under which correspondence 0 lies behind its camera.
BehindTranslation == ZeroTranslation + 2

\* camera.ProjectPoint(point_in_gen_camera, &pixel): negative when the point
\* cannot be projected.
ProjectPoint(rotation, translation, scale, j) ==
    IF translation = BehindTranslation /\ j = 0 THEN -1 ELSE 1

\* (pixel - observation).squaredNorm(): rotation r fits the correspondences
\* 0..r-2 with a pixel error of scale-1; every other one is off by more than
\* the threshold.
SqReprojectionError(rotation, translation, scale, j, thresh) ==
    LET e == IF j < rotation - 1 THEN scale - 1 ELSE thresh + scale
    IN e * e

\* IsInlier admitting an error equal to the threshold.
IsInlierOrOnThreshold(sq_reprojection_error, sq_reprojection_error_thresh) ==
    sq_reprojection_error <= sq_reprojection_error_thresh

\* The test of line 101.
IsInlier(sq_reprojection_error, sq_reprojection_error_thresh) ==
    sq_reprojection_error < sq_reprojection_error_thresh

\* InliersOf leaving the loop over j at the first failed projection.
InliersOfStoppingAtFailure(n, thresh, rotation, translation, scale) ==
    LET projected == SelectSeq(Iota(n),
                        LAMBDA j : ~(ProjectPoint(rotation, translation, scale, j) < 0))
        failed == {j \in 0..(n - 1) : ProjectPoint(rotation, translation, scale, j) < 0}
    IN SelectSeq(projected,
           LAMBDA j :
               /\ \A f \in failed : j < f
               /\ IsInlier(SqReprojectionError(rotation, translation, scale, j, thresh),
                           thresh * thresh))

\* InliersOf pushing j + 1 in the place of j.
InliersOfOneBased(n, thresh, rotation, translation, scale) ==
    LET inl == SelectSeq(Iota(n),
                   LAMBDA j :
                       /\ ~(ProjectPoint(rotation, translation, scale, j) < 0)
                       /\ IsInlier(SqReprojectionError(rotation, translation, scale,
                                                       j, thresh),
                                   thresh * thresh))
    IN [k \in 1..Len(inl) |-> inl[k] + 1]

\* The inner loop (lines 85-104): the inliers of one hypothesis, in order.
InliersOf(n, thresh, rotation, translation, scale) ==
    SelectSeq(Iota(n),
        LAMBDA j :
            /\ ~(ProjectPoint(rotation, translation, scale, j) < 0)
            /\ IsInlier(SqReprojectionError(rotation, translation, scale, j, thresh),
                        thresh * thresh))

\* IncomingBestRatio without the epsilon term.
IncomingBestRatioNoEpsilon(best_inliers, n) == Ratio(Len(best_inliers), n, 0)

\* best_inlier_ratio as initialised at lines 74-76.
IncomingBestRatio(best_inliers, n) == Ratio(Len(best_inliers), n, 1)

\* MoreInliers letting a hypothesis with as many inliers replace the best.
AtLeastAsManyInliers(best_inliers, inliers) == Len(best_inliers) <= Len(inliers)

\* The comparison of line 107.
MoreInliers(best_inliers, inliers) == Len(best_inliers) < Len(inliers)

\* Replace pushing the hypothesis onto the best solution instead of
\* overwriting its entry 0.
ReplaceByPushBack(st, inliers, rotation, translation, scale, n) ==
    [best_inliers |-> inliers,
     best_solution |->
         Solution(Append(st.best_solution.rotations, rotation),
                  Append(st.best_solution.translations, translation),
                  Append(st.best_solution.scales, scale)),
     best_inlier_ratio |-> Ratio(Len(inliers), n, 0)]

\* Lines 108-113: the best solution, inliers and ratio after an improvement.
Replace(st, inliers, rotation, translation, scale, n) ==
    [best_inliers |-> inliers,
     best_solution |-> [st.best_solution EXCEPT
                            !.rotations[1] = rotation,
                            !.translations[1] = translation,
                            !.scales[1] = scale],
     best_inlier_ratio |-> Ratio(Len(inliers), n, 0)]

\* The outer loop (lines 77-117) from hypothesis i (1-based) on.
RECURSIVE ScoreLoop(_, _, _, _, _)
ScoreLoop(i, n, thresh, estimated_solns, st) ==
    IF i > Len(estimated_solns.rotations) THEN st
    ELSE LET rotation == estimated_solns.rotations[i]
             translation == estimated_solns.translations[i]
             scale == estimated_solns.scales[i]
             inliers == InliersOf(n, thresh, rotation, translation, scale)
         IN ScoreLoop(i + 1, n, thresh, estimated_solns,
                IF MoreInliers(st.best_inliers, inliers)
                THEN Replace(st, inliers, rotation, translation, scale, n)
                ELSE st)

UpdateBestSolution(n, thresh, estimated_solns, best_soln, best_inliers) ==
    ScoreLoop(1, n, thresh, estimated_solns,
        [best_inliers |-> best_inliers,
         best_solution |-> best_soln,
         best_inlier_ratio |-> IncomingBestRatio(best_inliers, n)])


-----------------------------------------------------------------------------
(* Adaptive termination policy: lines 122-141 *)

Pow4(x) == x * x * x * x

\* 1.0 - pow(inlier_ratio, kMinimalSampleSize), as the rational <<num, den>>.
ProbBadSample(ratio) ==
    <<Pow4(ratio.tot) - Pow4(ratio.cnt), Pow4(ratio.tot)>>

\* std::pow(q, k) in fixed point, q = <<num, den>>.
RECURSIVE PowFixed(_, _)
PowFixed(q, k) ==
    IF k <= 0 THEN FixedOne ELSE (PowFixed(q, k - 1) * q[1]) \div q[2]

\* No iteration bound reaches IterationCap: a quotient is followed only up to it.
IterationCap == MaxIterationsBound + 1

\* The largest k <= IterationCap with q^k >= target, counting up from q^k = p:
\* the integer part of log(target) / log(q) for 0 < q < 1, 0 < target < 1.
RECURSIVE CountPowers(_, _, _, _)
CountPowers(p, k, q, target) ==
    IF k >= IterationCap THEN k
    ELSE LET p2 == (p * q[1]) \div q[2]
         IN IF p2 * target[2] >= FixedOne * target[1]
            THEN CountPowers(p2, k + 1, q, target)
            ELSE k

\* log_failure_prob / log_prob (lines 131-136) as a double, before the cast:
\*   "nan"  - inlier_ratio > 1: log of a negative number;
\*   "huge" - inlier_ratio is 0/n + epsilon: pow underflows, log(1.0) = 0,
\*            log_prob = -epsilon and the quotient is beyond the range of int
\*            (|log(P/Q)| * 2^52 >= 2^31 for every P # Q with Q < 2^21);
\*   "int"  - a quotient inside the range of int, val its integer part (cut
\*            at +-IterationCap).  The epsilon terms move the quotient by a
\*            relative 1e-15 and its integer part only if q^k = P/Q exactly.
Quotient(ratio, log_failure_prob) ==
    LET P == log_failure_prob[1]
        Q == log_failure_prob[2]
        q == ProbBadSample(ratio)
    IN IF ratio.cnt >= ratio.tot THEN [kind |-> "nan", val |-> 0]
       ELSE IF P = Q THEN [kind |-> "int", val |-> 0]
       ELSE IF ratio.cnt = 0 THEN [kind |-> "huge", val |-> 0]
       ELSE IF P < Q
            THEN [kind |-> "int", val |-> CountPowers(FixedOne, 0, q, <<P, Q>>)]
            ELSE [kind |-> "int", val |-> 0 - CountPowers(FixedOne, 0, q, <<Q, P>>)]

\* What static_cast<int> of a NaN or out-of-range double may yield (undefined
\* behaviour): INT_MIN (cvttsd2si), a saturated value or 0 (fcvtzs).
UndefinedCasts == {IntMin, 0, IntMax}

\* static_cast<int>(quotient), line 136: the values the cast may yield.
StaticCastInt(quotient) ==
    IF quotient.kind = "int" THEN {quotient.val} ELSE UndefinedCasts

\* Clamp bounding from above only.
ClampAbove(v, lo, hi) == IF hi < v THEN hi ELSE v

\* std::clamp(v, lo, hi), lines 138-140.
Clamp(v, lo, hi) == IF v < lo THEN lo ELSE IF hi < v THEN hi ELSE v

RatioPositive(ratio) == ratio.cnt > 0 \/ ratio.eps > 0

\* RatioIsOne comparing with a tolerance that 1.0 itself does not meet.
RatioIsOneAboveOnly(ratio) ==
    ratio.cnt = ratio.tot /\ ratio.eps > 0

\* inlier_ratio == 1.0, line 126.
RatioIsOne(ratio) ==
    ratio.cnt = ratio.tot /\ ratio.eps = 0

\* ComputeMaxIterations: the set of outcomes it may have; fatal when
\* CHECK_GT(inlier_ratio, 0.0) fails, undefined when the cast of line 136 was.
ComputeMaxIterations(p, ratio, log_failure_prob) ==
    IF ~RatioPositive(ratio)
    THEN {[fatal |-> TRUE, undefined |-> FALSE, value |-> 0]}
    ELSE IF RatioIsOne(ratio)
    THEN {[fatal |-> FALSE, undefined |-> FALSE, value |-> p.min_iterations]}
    ELSE LET quotient == Quotient(ratio, log_failure_prob)
         IN {[fatal |-> FALSE,
              undefined |-> quotient.kind # "int",
              value |-> Clamp(num_iterations, p.min_iterations, p.max_iterations)] :
                 num_iterations \in StaticCastInt(quotient)}

\* Confidence with the complement's sign slipped: 1.0 + pow(...).
ConfidenceSignSlip(ratio, num_iterations) ==
    FixedOne + PowFixed(ProbBadSample(ratio), num_iterations)

\* Lines 200-202: 1.0 - pow(1.0 - pow(inlier_ratio, 4), num_iterations), in
\* FixedOne units.  With inlier_ratio = 0 or epsilon the inner pow underflows
\* and the base is exactly 1.0; with inlier_ratio = 1 + epsilon the base is
\* -4 epsilon, whose square and higher powers vanish against 1.0.
Confidence(ratio, num_iterations) ==
    IF num_iterations = 0 \/ ratio.cnt = 0 THEN 0
    ELSE IF ratio.cnt = ratio.tot
    THEN IF ratio.eps > 0 /\ num_iterations = 1 THEN FixedOne + 1
         ELSE FixedOne
    ELSE FixedOne - PowFixed(ProbBadSample(ratio), num_iterations)


-----------------------------------------------------------------------------
(* The callers and the collaborators *)

\* Summary records a caller may hand to Estimate: a zeroed one, and one that
\* still holds the figures of some earlier use.
Summary(inl, its, hyps, conf) ==
    [inliers |-> inl, num_iterations |-> its, num_hypotheses |-> hyps,
     confidence |-> conf]

FreshSummary == Summary(<<>>, 0, 0, 0)

StaleSummary == Summary(<<0, 1>>, MaxIterationsBound + 4, 1, FixedOne \div 2)

CallerSummaries == {FreshSummary, StaleSummary}

\* Sizes of the correspondence vector a caller may pass: one short of the
\* minimal sample, and kMinimalSampleSize..MaxCorrespondences.
CorrespondenceCounts == (kMinimalSampleSize - 1)..MaxCorrespondences

\* Hypotheses <<rotation, translation, scale>> the minimal solver may return for
\* n correspondences: fitting none, two, all but the last, all, all with
\* correspondence 0 behind its camera, all with the error on the threshold.
Hypotheses(n) ==
    {<<1, 1, 1>>, <<3, 1, 1>>, <<n, 1, 1>>, <<n + 1, 1, 1>>,
     <<n + 1, BehindTranslation, 1>>, <<n + 1, 1, 2>>}

\* Hypotheses the solver may return after the first of a list.
LaterHypotheses(n) == {<<n, 1, 1>>, <<n + 1, BehindTranslation, 1>>}

\* GdlsStar::Solution holding the hypotheses hs, as parallel sequences.
AsSolution(hs) ==
    Solution([i \in 1..Len(hs) |-> hs[i][1]],
             [i \in 1..Len(hs) |-> hs[i][2]],
             [i \in 1..Len(hs) |-> hs[i][3]])

\* What EstimateSimilarityTransformation may leave in *hypotheses on success.
SolverOutputs(n) ==
    {AsSolution(hs) : hs \in
        {h \in UNION {[1..k -> Hypotheses(n)] : k \in 1..MaxHypotheses} :
            \A i \in 2..Len(h) : h[i] \in LaterHypotheses(n)}}

\* History of a call: the record the caller passed, what the solver produced,
\* and which step ran last.
Run(stp, ent, hyps, its, seen, imp, ub) ==
    [step |-> stp, entry |-> ent, hypotheses |-> hyps, iterations |-> its,
     inlier_seen |-> seen, improved |-> imp, undefined |-> ub]

NoRun == Run("none", FreshSummary, 0, 0, FALSE, FALSE, FALSE)

NoParams == Params(<<1, 2>>, 1, 0, 1, 0)

NoCmi == [ratio |-> ZeroRatio, log_failure_prob |-> <<1, 2>>, result |-> -1]

Ubs(solns, best_soln, best_inliers, dn) ==
    [estimated_solns |-> solns, best_solution |-> best_soln,
     best_inliers |-> best_inliers, done |-> dn]

NoUbs == Ubs(NoSolution, NoSolution, <<>>, FALSE)

Outcome(n, sm, ret, ub) ==
    [n |-> n, summary |-> sm, returned |-> ret, undefined |-> ub]

NoRef ==
    [solver |-> [ok |-> FALSE, hypotheses |-> NoSolution], calls |-> 0,
     first |-> Outcome(0, FreshSummary, NoSolution, FALSE)]

-----------------------------------------------------------------------------
(* The estimator: constructor (29-38) and Estimate (143-206) *)

\* The state before the constructor runs.
InitWith(pc0, p, n, ind, rf, c, u) ==
    /\ pc = pc0
    /\ params_ = p
    /\ prng_ = 0
    /\ correspondence_indices_ = ind
    /\ num_correspondences = n
    /\ summary = FreshSummary
    /\ max_iterations = 0
    /\ best_solution = NoSolution
    /\ inlier_ratio = ZeroRatio
    /\ sample = <<>>
    /\ returned = NoSolution
    /\ run = NoRun
    /\ ref = rf
    /\ cmi = c
    /\ ubs = u

Init == InitWith("unconstructed", NoParams, 0, <<>>, NoRef, NoCmi, NoUbs)

\* GdlsStarRobustEstimator(ransac_params): the members are initialised, then
\* the CHECKs run; a failed CHECK is fatal.
Construct(p) ==
    /\ pc = "unconstructed"
    /\ params_' = p
    /\ prng_' = SeedPrng(p.seed)
    /\ pc' = IF ParamsValid(p) THEN "idle" ELSE "fatal"
    /\ run' = [NoRun EXCEPT !.step = IF ParamsValid(p) THEN "construct" ELSE "fatal_construct"]
    /\ UNCHANGED <<correspondence_indices_, num_correspondences, summary,
                   max_iterations, best_solution, inlier_ratio, sample,
                   returned, cmi, ubs>>

\* Estimate, lines 147-170, called with n correspondences and the summary
\* record s: clear the inliers, check the size, reset the index array, set up
\* the locals and enter the loop with num_iterations = 0.
EstimateBegin(n, s) ==
    /\ pc = "idle"
    /\ num_correspondences' = n
    /\ IF n >= kMinimalSampleSize
       THEN /\ pc' = "loop"
            /\ summary' = [s EXCEPT !.inliers = <<>>, !.num_iterations = 0]
            /\ correspondence_indices_' = Iota(n)
            /\ max_iterations' = params_.max_iterations
            /\ best_solution' = IdentitySolution
            /\ inlier_ratio' = ZeroRatio
            /\ sample' = <<>>
            /\ returned' = NoSolution
            /\ run' = Run("begin", s, 0, 0, FALSE, FALSE, FALSE)
       ELSE /\ pc' = "fatal"
            /\ summary' = [s EXCEPT !.inliers = <<>>]
            /\ run' = Run("fatal_estimate", s, 0, 0, FALSE, FALSE, FALSE)
            /\ UNCHANGED <<correspondence_indices_, max_iterations,
                           best_solution, inlier_ratio, sample, returned>>
    /\ UNCHANGED <<params_, prng_, cmi, ubs>>

\* The sampling of line 175, common to every iteration.
DrawSample ==
    LET gs == PrngOutputs(prng_)
        drawn == Sample(num_correspondences, correspondence_indices_, gs)
    IN /\ correspondence_indices_' = drawn.indices
       /\ sample' = drawn.sample
       /\ prng_' = gs[kMinimalSampleSize]

\* IterateFail with the hypothesis counter advanced before the solver's answer
\* is looked at.
IterateFailCountingHypotheses ==
    /\ pc = "loop"
    /\ summary.num_iterations < max_iterations
    /\ DrawSample
    /\ summary' = [summary EXCEPT !.num_iterations = @ + 1, !.num_hypotheses = @ + 1]
    /\ run' = [run EXCEPT !.step = "fail", !.iterations = @ + 1]
    /\ UNCHANGED <<pc, params_, num_correspondences, max_iterations,
                   best_solution, inlier_ratio, returned, cmi, ubs>>

\* One iteration in which the solver reports no solution (lines 175-184).
IterateFail ==
    /\ pc = "loop"
    /\ summary.num_iterations < max_iterations
    /\ DrawSample
    /\ summary' = [summary EXCEPT !.num_iterations = @ + 1]
    /\ run' = [run EXCEPT !.step = "fail", !.iterations = @ + 1]
    /\ UNCHANGED <<pc, params_, num_correspondences, max_iterations,
                   best_solution, inlier_ratio, returned, cmi, ubs>>

\* One iteration in which the solver returns hypotheses (lines 175-197).
IterateOk(hypotheses) ==
    /\ pc = "loop"
    /\ summary.num_iterations < max_iterations
    /\ DrawSample
    /\ \E upd \in {UpdateBestSolution(num_correspondences,
                                      params_.reprojection_error_thresh,
                                      hypotheses, best_solution, summary.inliers)} :
       \E bound \in ComputeMaxIterations(params_, upd.best_inlier_ratio,
                                         params_.failure_probability) :
       LET n == num_correspondences
           thresh == params_.reprojection_error_thresh
           scored == [summary EXCEPT
                          !.num_hypotheses = @ + Len(hypotheses.rotations),
                          !.inliers = upd.best_inliers]
           seen == \E i \in 1..Len(hypotheses.rotations) :
                      Len(InliersOf(n, thresh, hypotheses.rotations[i],
                                    hypotheses.translations[i],
                                    hypotheses.scales[i])) > 0
           hist == [run EXCEPT
                        !.hypotheses = @ + Len(hypotheses.rotations),
                        !.iterations = @ + 1,
                        !.inlier_seen = @ \/ seen,
                        !.improved = @ \/ Len(summary.inliers) < Len(upd.best_inliers),
                        !.undefined = @ \/ bound.undefined]
       IN /\ best_solution' = upd.best_solution
          /\ inlier_ratio' = upd.best_inlier_ratio
          /\ IF bound.fatal
             THEN /\ pc' = "fatal"
                  /\ summary' = scored
                  /\ run' = [hist EXCEPT !.step = "fatal_bound"]
                  /\ UNCHANGED max_iterations
             ELSE /\ pc' = pc
                  /\ max_iterations' = bound.value
                  /\ summary' = [scored EXCEPT !.num_iterations = @ + 1]
                  /\ run' = [hist EXCEPT !.step = "ok"]
    /\ UNCHANGED <<params_, num_correspondences, returned, cmi, ubs>>

\* EstimateEnd leaving the loop whatever the iteration count is.
EstimateEndAtAnyCount ==
    /\ pc = "loop"
    /\ summary' = [summary EXCEPT
                       !.confidence = Confidence(inlier_ratio, summary.num_iterations)]
    /\ returned' = best_solution
    /\ pc' = "idle"
    /\ run' = [run EXCEPT !.step = "end"]
    /\ UNCHANGED <<params_, prng_, correspondence_indices_, num_correspondences,
                   max_iterations, best_solution, inlier_ratio, sample, cmi, ubs>>

\* Loop exit, lines 199-205: the confidence is written, the best solution
\* returned.
EstimateEnd ==
    /\ pc = "loop"
    /\ ~(summary.num_iterations < max_iterations)
    /\ summary' = [summary EXCEPT
                       !.confidence = Confidence(inlier_ratio, summary.num_iterations)]
    /\ returned' = best_solution
    /\ pc' = "idle"
    /\ run' = [run EXCEPT !.step = "end"]
    /\ UNCHANGED <<params_, prng_, correspondence_indices_, num_correspondences,
                   max_iterations, best_solution, inlier_ratio, sample, cmi, ubs>>

Next ==
    \/ \E p \in ParamChoices : Construct(p) /\ UNCHANGED ref
    \/ \E n \in CorrespondenceCounts, s \in CallerSummaries :
           EstimateBegin(n, s) /\ UNCHANGED ref
    \/ IterateFail /\ UNCHANGED ref
    \/ \E h \in SolverOutputs(num_correspondences) : IterateOk(h) /\ UNCHANGED ref
    \/ EstimateEnd /\ UNCHANGED ref

Spec == Init /\ [][Next]_vars

\* Solver outputs of one hypothesis: an iteration acts on the iteration bound
\* through the best inlier count only, and these reach every count a list does.
SingleHypothesisOutputs(n) == {AsSolution(<<h>>) : h \in Hypotheses(n)}

\* The steps of a running Estimate call: the body of the for loop of lines
\* 171-197 and the exit.
LoopStep ==
    \/ IterateFail /\ UNCHANGED ref
    \/ \E h \in SingleHypothesisOutputs(num_correspondences) :
           IterateOk(h) /\ UNCHANGED ref
    \/ EstimateEnd /\ UNCHANGED ref

\* One Estimate call on a newly constructed estimator.
NextRunning ==
    \/ \E p \in {x \in ParamChoices : x.seed = 0} : Construct(p) /\ UNCHANGED ref
    \/ \E n \in CorrespondenceCounts :
           /\ run.step = "construct"
           /\ EstimateBegin(n, FreshSummary)
           /\ UNCHANGED ref
    \/ LoopStep

\* A call that has begun keeps executing: Estimate is one thread of control
\* with no suspension point, and the solver returns.
SpecRunning == Init /\ [][NextRunning]_vars /\ WF_vars(LoopStep)

-----------------------------------------------------------------------------
(* The sampler alone, with an arbitrary generator: Estimate resets the index *)
(* array (lines 155-157) and calls Sample (lines 45-59) any number of times. *)

InitSample ==
    \E n \in kMinimalSampleSize..MaxCorrespondences :
        InitWith("sampler", NoParams, n, Iota(n), NoRef, NoCmi, NoUbs)

ResetIndices(n) ==
    /\ pc = "sampler"
    /\ num_correspondences' = n
    /\ correspondence_indices_' = Iota(n)
    /\ sample' = <<>>
    /\ UNCHANGED <<pc, params_, prng_, summary, max_iterations, best_solution,
                   inlier_ratio, returned, run, ref, cmi, ubs>>

\* Sample with the raw generator outputs gs.
SampleCall(gs) ==
    /\ pc = "sampler"
    /\ LET drawn == Sample(num_correspondences, correspondence_indices_, gs)
       IN /\ correspondence_indices_' = drawn.indices
          /\ sample' = drawn.sample
    /\ UNCHANGED <<pc, params_, prng_, num_correspondences, summary,
                   max_iterations, best_solution, inlier_ratio, returned, run,
                   ref, cmi, ubs>>

NextSample ==
    \/ \E n \in kMinimalSampleSize..MaxCorrespondences : ResetIndices(n)
    \/ \E gs \in [1..kMinimalSampleSize -> 0..(num_correspondences - 1)] :
           SampleCall(gs)

SpecSample == InitSample /\ [][NextSample]_vars

-----------------------------------------------------------------------------
(* The termination policy alone: ComputeMaxIterations on inlier ratios in    *)
(* (0, 1] and on the logarithms of several probabilities, also above 1.      *)

PolicyRatios ==
    {Ratio(c, t, e) : c \in 0..MaxCorrespondences, t \in 1..MaxCorrespondences,
                      e \in 0..1}

PolicyInputs ==
    {[ratio |-> r, log_failure_prob |-> l, result |-> -1] :
        r \in {x \in PolicyRatios :
                  RatioPositive(x) /\ RatioLeq(x, Ratio(1, 1, 0))},
        l \in {<<1, 2>>, <<1, 100>>, <<99, 100>>, <<1, 1>>, <<2, 1>>}}

InitPolicy ==
    \E p \in {x \in ParamChoices : ParamsValid(x)}, c \in PolicyInputs :
        InitWith("policy", p, 0, <<>>, NoRef, c, NoUbs)

ApplyComputeMaxIterations ==
    /\ pc = "policy"
    /\ cmi.result = -1
    /\ \E out \in ComputeMaxIterations(params_, cmi.ratio, cmi.log_failure_prob) :
           /\ ~out.fatal
           /\ cmi' = [cmi EXCEPT !.result = out.value]
    /\ UNCHANGED <<pc, params_, prng_, correspondence_indices_,
                   num_correspondences, summary, max_iterations, best_solution,
                   inlier_ratio, sample, returned, run, ref, ubs>>

NextPolicy == ApplyComputeMaxIterations

SpecPolicy == InitPolicy /\ [][NextPolicy]_vars

-----------------------------------------------------------------------------
(* The scorer alone: one UpdateBestSolution call (lines 61-120) on any list  *)
(* of hypotheses and any best solution and inlier set Estimate may hold.     *)

\* The best solution and inliers Estimate may pass in: the identity with no
\* inlier, or an earlier hypothesis with its inliers.
IncomingBests(n, thresh) ==
    {[best_solution |-> IdentitySolution, best_inliers |-> <<>>]}
    \cup {[best_solution |-> AsSolution(<<h>>),
           best_inliers |-> InliersOf(n, thresh, h[1], h[2], h[3])] :
              h \in {x \in Hypotheses(n) :
                        InliersOf(n, thresh, x[1], x[2], x[3]) # <<>>}}

\* The hypothesis lists scored: every list of 1..MaxHypotheses hypotheses.
ScoreInputs(n) ==
    {AsSolution(hs) :
        hs \in UNION {[1..k -> Hypotheses(n)] : k \in 1..MaxHypotheses}}

InitScore ==
    \E n \in kMinimalSampleSize..MaxCorrespondences,
       p \in {x \in ParamChoices : ParamsValid(x)} :
    \E b \in IncomingBests(n, p.reprojection_error_thresh),
       solns \in ScoreInputs(n) :
        /\ pc = "scorer"
        /\ params_ = p
        /\ prng_ = SeedPrng(p.seed)
        /\ correspondence_indices_ = Iota(n)
        /\ num_correspondences = n
        /\ summary = [FreshSummary EXCEPT !.inliers = b.best_inliers]
        /\ max_iterations = p.max_iterations
        /\ best_solution = b.best_solution
        /\ inlier_ratio = ZeroRatio
        /\ sample = <<>>
        /\ returned = NoSolution
        /\ run = NoRun
        /\ ref = NoRef
        /\ cmi = NoCmi
        /\ ubs = Ubs(solns, b.best_solution, b.best_inliers, FALSE)

\* inlier_ratio = UpdateBestSolution(correspondences, hypotheses,
\*                                  &best_solution, &summary.inliers)
ApplyUpdateBestSolution ==
    /\ pc = "scorer"
    /\ ~ubs.done
    /\ \E upd \in {UpdateBestSolution(num_correspondences,
                                      params_.reprojection_error_thresh,
                                      ubs.estimated_solns, best_solution,
                                      summary.inliers)} :
           /\ best_solution' = upd.best_solution
           /\ summary' = [summary EXCEPT !.inliers = upd.best_inliers]
           /\ inlier_ratio' = upd.best_inlier_ratio
    /\ ubs' = [ubs EXCEPT !.done = TRUE]
    /\ UNCHANGED <<pc, params_, prng_, correspondence_indices_,
                   num_correspondences, max_iterations, sample, returned, run,
                   ref, cmi>>

NextScore == ApplyUpdateBestSolution

SpecScore == InitScore /\ [][NextScore]_vars

-----------------------------------------------------------------------------
(* Repeated Estimate calls on one estimator, with a solver that answers      *)
(* every sample alike; the caller passes a zeroed summary record or the one  *)
(* the previous call filled.                                                 *)

InitRepeat ==
    \E sv \in {[ok |-> FALSE, hypotheses |-> NoSolution]}
              \cup {[ok |-> TRUE, hypotheses |-> h] :
                        h \in SolverOutputs(kMinimalSampleSize)} :
        InitWith("unconstructed", NoParams, 0, <<>>,
                 [NoRef EXCEPT !.solver = sv], NoCmi, NoUbs)

\* The end of a call, recorded: the first call's outcome is kept.
RecordEnd ==
    ref' = [ref EXCEPT
                !.calls = @ + 1,
                !.first = IF ref.calls = 0
                          THEN Outcome(num_correspondences, summary', returned',
                                       run.undefined)
                          ELSE @]

NextRepeat ==
    \/ \E p \in ParamChoices : Construct(p) /\ UNCHANGED ref
    \/ \E n \in CorrespondenceCounts, s \in {FreshSummary, summary} :
           /\ ref.calls < RepeatedCalls
           /\ EstimateBegin(n, s)
           /\ UNCHANGED ref
    \/ ~ref.solver.ok /\ IterateFail /\ UNCHANGED ref
    \/ ref.solver.ok /\ IterateOk(ref.solver.hypotheses) /\ UNCHANGED ref
    \/ EstimateEnd /\ RecordEnd

SpecRepeat == InitRepeat /\ [][NextRepeat]_vars

-----------------------------------------------------------------------------
(* Properties *)

IsPermutation(ind, n) ==
    Len(ind) = n /\ {ind[k] : k \in 1..n} = 0..(n - 1)

SampleIndices == {sample[k] : k \in 1..Len(sample)}

\* C1: after the reset of the index array to the identity of size n >= 4 and
\* after any number of Sample calls with any draws, the index array is a
\* permutation of 0..n-1, and a Sample call returns exactly 4 correspondences
\* with pairwise distinct indices in [0, n).
C1_SamplePermutation ==
    /\ IsPermutation(correspondence_indices_, num_correspondences)
    /\ sample # <<>> =>
           /\ Len(sample) = kMinimalSampleSize
           /\ Cardinality(SampleIndices) = kMinimalSampleSize
           /\ SampleIndices \subseteq 0..(num_correspondences - 1)

\* A Sample call on more than 4 correspondences has shuffled the array and
\* drawn an index beyond the first four.
C1_Witness ==
    /\ sample # <<>>
    /\ num_correspondences > kMinimalSampleSize
    /\ correspondence_indices_ # Iota(num_correspondences)
    /\ kMinimalSampleSize \in SampleIndices

\* C2: if every correspondence is an outlier (in every iteration the solver
\* fails or every hypothesis has zero inliers), Estimate runs exactly
\* max_iterations iterations and returns the identity solution with an empty
\* inlier set.
C2_AllOutliersRunToMax ==
    (run.step = "end" /\ ~run.inlier_seen) =>
        /\ summary.num_iterations = params_.max_iterations
        /\ returned = IdentitySolution
        /\ summary.inliers = <<>>

\* C3: two Estimate calls with identical correspondences, parameters and seed
\* (here: on one estimator, with a solver answering every sample alike and no
\* undefined cast in either call) return identical solutions and summaries.
C3_RepeatedCallsAgree ==
    (/\ run.step = "end"
     /\ ref.calls >= 2
     /\ ref.first.n = num_correspondences
     /\ ~ref.first.undefined
     /\ ~run.undefined) =>
        /\ returned = ref.first.returned
        /\ summary = ref.first.summary

\* C4: at the end of a call the summary's hypothesis count is the number of
\* hypotheses the solver returned in that call, its iteration count the number
\* of iterations of that call, and its inliers were found in that call,
\* whatever the record held on entry.
C4_SummaryFresh ==
    run.step = "end" =>
        /\ summary.num_hypotheses = run.hypotheses
        /\ summary.num_iterations = run.iterations
        /\ summary.inliers # <<>> =>
               /\ run.improved
               /\ summary.inliers =
                      InliersOf(num_correspondences,
                                params_.reprojection_error_thresh,
                                best_solution.rotations[1],
                                best_solution.translations[1],
                                best_solution.scales[1])

\* C5: for every inlier_ratio in (0, 1] and every log_failure_probability the
\* value ComputeMaxIterations returns lies in [min_iterations,
\* max_iterations], also when the quotient does not fit the result type.
C5_BoundClamped ==
    cmi.result # -1 =>
        /\ params_.min_iterations <= cmi.result
        /\ cmi.result <= params_.max_iterations

\* ComputeMaxIterations has returned for a ratio of 0/n + epsilon, whose
\* quotient is beyond the range of int, with the result at min_iterations.
C5_Witness ==
    /\ cmi.result # -1
    /\ cmi.ratio.cnt = 0
    /\ Quotient(cmi.ratio, cmi.log_failure_prob).kind = "huge"
    /\ cmi.result = params_.min_iterations

\* C6 (as claimed): at the end of every Estimate call the confidence lies in
\* [0, 1): never negative and never equal to 1.
C6_ConfidenceBelowOne ==
    run.step = "end" =>
        0 <= summary.confidence /\ summary.confidence < FixedOne

\* C6 (amended): at the end of every Estimate call the confidence lies in the
\* closed interval [0, 1].
C6_ConfidenceInUnitInterval ==
    run.step = "end" =>
        0 <= summary.confidence /\ summary.confidence <= FixedOne

\* A call has ended with every correspondence an inlier and confidence 1.
C6_Witness ==
    /\ run.step = "end"
    /\ Len(summary.inliers) = num_correspondences
    /\ summary.confidence = FixedOne

\* C7: over the UpdateBestSolution calls of a run the returned ratios are
\* non-decreasing, and a call in which no hypothesis improves on the incoming
\* best returns a ratio strictly greater than existing_best_count / total.
C7_RatioMonotone ==
    [][run'.step = "ok" =>
          /\ RatioLeq(inlier_ratio, inlier_ratio')
          /\ Len(summary'.inliers) = Len(summary.inliers) =>
                 RatioLess(Ratio(Len(summary.inliers), num_correspondences, 0),
                           inlier_ratio')]_vars

\* UpdateBestSolution has returned without an improvement on a non-empty best
\* inlier set.
C7_Witness ==
    /\ run.step = "ok"
    /\ run.improved
    /\ inlier_ratio = Ratio(Len(summary.inliers), num_correspondences, 1)
    /\ summary.inliers # <<>>

HasOneHypothesis(soln) ==
    /\ Len(soln.rotations) = 1
    /\ Len(soln.translations) = 1
    /\ Len(soln.scales) = 1

\* C8: the best solution has exactly one rotation, translation and scale in
\* every state of the run and when returned; if no hypothesis of the run ever
\* strictly beat the best inlier count, the returned solution is the identity.
C8_SingleBestSolution ==
    /\ pc = "loop" => HasOneHypothesis(best_solution)
    /\ run.step = "end" => HasOneHypothesis(returned)
    /\ (run.step = "end" /\ ~run.improved) => returned = IdentitySolution

\* A call has ended in which the solver returned hypotheses, none of which
\* had an inlier, and the identity came back.
C8_Witness ==
    /\ run.step = "end"
    /\ run.hypotheses > 0
    /\ ~run.improved
    /\ returned = IdentitySolution

\* C9: an iteration in which the solver reports no solution changes the
\* iteration counter (by one), the index array and the generator only: the
\* hypothesis counter, best solution, best inliers, last inlier ratio and
\* running iteration bound stay.
C9_FailedIterationFrame ==
    [][run'.step = "fail" =>
          /\ summary' = [summary EXCEPT !.num_iterations = @ + 1]
          /\ best_solution' = best_solution
          /\ inlier_ratio' = inlier_ratio
          /\ max_iterations' = max_iterations]_vars

\* The solver has failed on a sample after an earlier iteration found inliers.
C9_Witness ==
    /\ run.step = "fail"
    /\ summary.num_hypotheses > 0
    /\ summary.inliers # <<>>
    /\ summary.num_iterations > 1

\* C10: Estimate with fewer than 4 correspondences aborts before any sample,
\* solver call or iteration, and leaves the caller's summary unmodified.
C10_FatalLeavesSummary ==
    run.step = "fatal_estimate" =>
        /\ run.iterations = 0
        /\ run.hypotheses = 0
        /\ summary = run.entry

\* C11: construction succeeds if and only if 0 < failure_probability < 1,
\* reprojection_error_thresh > 0 and 0 <= min_iterations < max_iterations;
\* with any of these violated it fails fatally, and the outcome is a function
\* of the parameter values.
C11_ConstructionIffValid ==
    pc # "unconstructed" =>
        LET fp == params_.failure_probability
            constraints ==
                /\ 0 < fp[1] /\ fp[1] < fp[2]
                /\ params_.reprojection_error_thresh > 0
                /\ 0 <= params_.min_iterations
                /\ params_.min_iterations < params_.max_iterations
        IN /\ constraints => run.step # "fatal_construct"
           /\ ~constraints => (pc = "fatal" /\ run.step = "fatal_construct")

\* Construction has failed on parameters whose only fault is
\* max_iterations = min_iterations.
C11_Witness ==
    /\ pc = "fatal"
    /\ run.step = "fatal_construct"
    /\ params_.max_iterations = params_.min_iterations
    /\ params_.min_iterations > 0
    /\ params_.reprojection_error_thresh > 0

\* C12: ComputeMaxIterations called with inlier_ratio exactly 1.0 returns
\* exactly min_iterations, for every log_failure_probability.
C12_RatioOneGivesMin ==
    (cmi.result # -1 /\ cmi.ratio.cnt = cmi.ratio.tot /\ cmi.ratio.eps = 0) =>
        cmi.result = params_.min_iterations

\* ComputeMaxIterations has returned a positive min_iterations for the ratio
\* 1.0 and the logarithm of a probability above 1.
C12_Witness ==
    /\ cmi.result # -1
    /\ cmi.ratio = Ratio(MaxCorrespondences, MaxCorrespondences, 0)
    /\ cmi.log_failure_prob = <<2, 1>>
    /\ cmi.result = params_.min_iterations
    /\ params_.min_iterations > 0

InRun == run.step \in {"begin", "ok", "fail", "fatal_bound", "end"}

\* C13: in every state of a run and at its end, the best inlier index set of
\* the summary has no duplicate index and is a subset of
\* [0, num_correspondences).
C13_InliersDistinctInRange ==
    InRun =>
        /\ \A a, b \in 1..Len(summary.inliers) :
               summary.inliers[a] = summary.inliers[b] => a = b
        /\ \A a \in 1..Len(summary.inliers) :
               0 <= summary.inliers[a] /\ summary.inliers[a] < num_correspondences

\* A run on more than 4 correspondences, entered with a summary that held
\* inliers of an earlier use, has ended with every correspondence an inlier.
C13_Witness ==
    /\ run.step = "end"
    /\ run.entry.inliers # <<>>
    /\ num_correspondences > kMinimalSampleSize
    /\ Len(summary.inliers) = num_correspondences

\* Hypothesis i of the list UpdateBestSolution was called with.
HypothesisAt(i) ==
    Solution(<<ubs.estimated_solns.rotations[i]>>,
             <<ubs.estimated_solns.translations[i]>>,
             <<ubs.estimated_solns.scales[i]>>)

\* The inliers of hypothesis i of that list, as the scorer finds them.
ScoredInliers(i) ==
    InliersOf(num_correspondences, params_.reprojection_error_thresh,
              ubs.estimated_solns.rotations[i],
              ubs.estimated_solns.translations[i],
              ubs.estimated_solns.scales[i])

\* C14: after an UpdateBestSolution call the best inlier count is the maximum
\* of the incoming best count and all hypotheses' inlier counts; the best
\* solution and inlier set are those of the first hypothesis in list order
\* whose count strictly exceeds every count before it and the incoming count
\* (ties keep the earlier best, and without such a hypothesis the incoming
\* best stays); when a hypothesis improved, the returned ratio is
\* new_best_count / total_correspondences.
C14_StrictImprovementInOrder ==
    ubs.done =>
        LET k == Len(ubs.estimated_solns.rotations)
            incoming == Len(ubs.best_inliers)
            best == Len(summary.inliers)
        IN /\ incoming <= best
           /\ \A i \in 1..k : Len(ScoredInliers(i)) <= best
           /\ IF incoming < best
              THEN \E w \in 1..k :
                       /\ Len(ScoredInliers(w)) = best
                       /\ \A i \in 1..(w - 1) : Len(ScoredInliers(i)) < best
                       /\ best_solution = HypothesisAt(w)
                       /\ summary.inliers = ScoredInliers(w)
                       /\ inlier_ratio = Ratio(best, num_correspondences, 0)
              ELSE /\ best_solution = ubs.best_solution
                   /\ summary.inliers = ubs.best_inliers

\* A call has scored two different hypotheses with equally many inliers,
\* more than the incoming best, and keeps the first.
C14_Witness ==
    /\ ubs.done
    /\ Len(ubs.estimated_solns.rotations) >= 2
    /\ HypothesisAt(1) # HypothesisAt(2)
    /\ ScoredInliers(1) # ScoredInliers(2)
    /\ Len(ScoredInliers(1)) = Len(ScoredInliers(2))
    /\ Len(ubs.best_inliers) < Len(ScoredInliers(1))
    /\ ubs.best_inliers # <<>>
    /\ best_solution = HypothesisAt(1)

\* The correspondences whose projection fails under hypothesis i.
FailedProjections(i) ==
    {j \in 0..(num_correspondences - 1) :
        ProjectPoint(ubs.estimated_solns.rotations[i],
                     ubs.estimated_solns.translations[i],
                     ubs.estimated_solns.scales[i], j) < 0}

\* The correspondences that project under hypothesis i with a squared error
\* strictly below the squared threshold.
ProjectedBelowThreshold(i) ==
    {j \in (0..(num_correspondences - 1)) \ FailedProjections(i) :
        SqReprojectionError(ubs.estimated_solns.rotations[i],
                            ubs.estimated_solns.translations[i],
                            ubs.estimated_solns.scales[i], j,
                            params_.reprojection_error_thresh)
            < params_.reprojection_error_thresh * params_.reprojection_error_thresh}

\* C15: a correspondence j whose projection fails under hypothesis h is not
\* in h's inlier set and is left out of h's scoring only: the other
\* correspondences of h are scored (h's inliers are exactly the remaining
\* correspondences below the threshold), every later hypothesis is scored,
\* and j is an inlier of another hypothesis whenever it projects there below
\* the threshold.
C15_ProjectionFailureSkipsOne ==
    ubs.done =>
        \A i \in 1..Len(ubs.estimated_solns.rotations) :
            /\ Cardinality(ProjectedBelowThreshold(i)) <= Len(summary.inliers)
            /\ best_solution = HypothesisAt(i) =>
                   /\ {summary.inliers[a] : a \in 1..Len(summary.inliers)}
                          = ProjectedBelowThreshold(i)
                   /\ \A j \in FailedProjections(i) :
                          \A a \in 1..Len(summary.inliers) : summary.inliers[a] # j

\* A call has scored a hypothesis under which correspondence 0 cannot be
\* projected and the later ones are inliers, and after it a hypothesis that
\* has correspondence 0 among its inliers and became the best.
C15_Witness ==
    /\ ubs.done
    /\ Len(ubs.estimated_solns.rotations) >= 2
    /\ FailedProjections(1) = {0}
    /\ ProjectedBelowThreshold(1) = 1..(num_correspondences - 1)
    /\ FailedProjections(2) = {}
    /\ best_solution = HypothesisAt(2)
    /\ summary.inliers = Iota(num_correspondences)

\* C16: every Estimate call with at least 4 correspondences terminates, and
\* at termination min_iterations <= num_iterations <= max_iterations and
\* num_iterations >= 1, whatever the solver answers and whatever the inlier
\* ratios are.
C16_TerminatesWithinBounds ==
    /\ [](run.step = "end" =>
             /\ params_.min_iterations <= summary.num_iterations
             /\ summary.num_iterations <= params_.max_iterations
             /\ summary.num_iterations >= 1)
    /\ (pc = "loop") ~> (run.step = "end")

\* A call has ended at a positive min_iterations, below max_iterations, after
\* a cast of a quotient outside the range of int.
C16_Witness ==
    /\ run.step = "end"
    /\ run.undefined
    /\ params_.min_iterations >= 1
    /\ summary.num_iterations = params_.min_iterations
    /\ summary.num_iterations < params_.max_iterations

\* C17: every inlier ratio Estimate passes to ComputeMaxIterations satisfies
\* 0 < inlier_ratio <= 1, in every reachable iteration, also in one without
\* improvement on an empty best inlier set or on a best inlier set that
\* holds all correspondences; the precondition check never fires.
C17_RatioInDomain ==
    run.step \in {"ok", "fatal_bound"} =>
        /\ run.step # "fatal_bound"
        /\ inlier_ratio.cnt > 0 \/ inlier_ratio.eps > 0
        /\ \/ inlier_ratio.cnt < inlier_ratio.tot
           \/ inlier_ratio.cnt = inlier_ratio.tot /\ inlier_ratio.eps = 0

\* The correspondences that project under the best solution held with a
\* squared error strictly below the squared threshold.
BestSolutionInliers ==
    {j \in 0..(num_correspondences - 1) :
        /\ ProjectPoint(best_solution.rotations[1], best_solution.translations[1],
                        best_solution.scales[1], j) >= 0
        /\ SqReprojectionError(best_solution.rotations[1],
                               best_solution.translations[1],
                               best_solution.scales[1], j,
                               params_.reprojection_error_thresh)
               < params_.reprojection_error_thresh * params_.reprojection_error_thresh}

\* C18: at every iteration boundary of an Estimate run and at its end, the
\* summary's inlier set, whenever it is non-empty, is exactly the set of
\* correspondences that project with a squared error strictly below the
\* squared threshold under the best solution held; and the size of the
\* summary's inlier set never decreases during the run.
C18_InliersOfBestSolution ==
    [][(pc' = "loop" \/ run'.step = "end") =>
          /\ summary'.inliers # <<>> =>
                 {summary'.inliers[a] : a \in 1..Len(summary'.inliers)}
                     = BestSolutionInliers'
          /\ pc = "loop" => Len(summary.inliers) <= Len(summary'.inliers)]_vars

\* The best solution was replaced, in a later iteration of a run, by one with
\* more inliers, among them not correspondence 0, which it cannot project.
C18_Witness ==
    /\ run.step = "ok"
    /\ summary.num_iterations >= 2
    /\ summary.num_hypotheses >= 2
    /\ best_solution.translations[1] = BehindTranslation
    /\ summary.inliers = [k \in 1..(num_correspondences - 1) |-> k]

====
